---- MODULE Spec2Model ----
(***************************************************************************)
(* The reactive state engine of the signal module: RefState (leaf signal), *)
(* ComputedState (derived signal), EffectState (effect), the Capture that  *)
(* records reads and writes of one evaluation, and the scheduler           *)
(* (enqueueUpdate / updateStates).                                          *)
(*                                                                         *)
(* JavaScript is single-threaded: a host turn (a call of the public API    *)
(* or a timer callback) runs to completion.  The call stack of body        *)
(* evaluations is explicit, so the process-wide slots currentCapture and   *)
(* recursive can be observed while a body runs.  A JavaScript Set iterates *)
(* in insertion order; it is modelled as a sequence without duplicates.    *)
(***************************************************************************)
EXTENDS Naturals, Sequences, FiniteSets

VARIABLES
    refs,            \* the RefState objects, refs[i] has _id = i - 1
    computeds,       \* the ComputedState objects
    effects,         \* the EffectState objects
    currentCapture,  \* the owner of the Capture that is current, or Null
    dirtyStates,     \* Set<RefState>, in insertion order
    currentUpdate,   \* a flush callback has been queued and has not started
    timers,          \* number of updateStates callbacks queued by setTimeout
    recursive,       \* "false" | "computed" | "effect"
    stack,           \* the runCapture calls in progress, innermost last
    flush,           \* the position of updateStates and its locals
    exc,             \* the exception that is propagating, or "none"
    currentRefs,     \* RefState[] | null, the list collect fills
    currentComputes, \* ComputedState[] | null
    currentEffects,  \* EffectState[] | null
    collects         \* the collect calls in progress, innermost last

\* the registration target of collect and the calls of collect in progress
collectVars == <<currentRefs, currentComputes, currentEffects, collects>>

vars == <<refs, computeds, effects, currentCapture, dirtyStates, currentUpdate,
          timers, recursive, stack, flush, exc, collectVars>>

\* ------------------------------------------------------------------ bounds
MaxVal == 1
MaxRefs == 2
MaxComputeds == 1
MaxEffects == 2
MaxCalls == 2
MaxDepth == 2

Val == 0..MaxVal
Undefined == MaxVal + 1
NoWrite == MaxVal + 2

\* ------------------------------------------------------------- node names
Null == <<"null", 0>>
Ref(i) == <<"ref", i>>
Computed(i) == <<"computed", i>>
Effect(i) == <<"effect", i>>
\* the value null of currentRefs, currentComputes and currentEffects
NoList == <<Null>>
Kind(n) == n[1]
Idx(n) == n[2]

Range(s) == {s[i] : i \in DOMAIN s}
Last(s) == s[Len(s)]
Front(s) == SubSeq(s, 1, Len(s) - 1)

\* Set.prototype.add and Set.prototype.delete on an insertion-ordered Set
SetAdd(s, x) == IF x \in Range(s) THEN s ELSE Append(s, x)
SetDelete(s, x) == SelectSeq(s, LAMBDA y : y # x)

\* new Capture()
Capture == [_getters |-> <<>>, _setters |-> <<>>]

refId == Len(refs)
computedId == Len(computeds)
effectId == Len(effects)

\* ------------------------------------------------- the bodies of the nodes
\* A body reads src and, when the value read is not 0, performs op:
\*   () => { const x = src.value; if (x) { op }; return ... }
\* but for op "flip", which is performed whatever the value read:
\*   () => { const x = src.value; arg.value = (x + 1) % (MaxVal + 1) }
\* A computed body returns the last value read; an effect body returns a
\* cleanup callback when clean is TRUE.
Fn(src, op, arg, val, clean) ==
    [src |-> src, op |-> op, arg |-> arg, val |-> val, clean |-> clean]

\* the bodies of nodes constructed inside a body (op "computed", "effect")
NestedComputedFn == Fn(Ref(2), "none", Null, 0, FALSE)
NestedEffectFn == Fn(Ref(2), "none", Null, 0, FALSE)

\* the bodies the host passes to computed() and effect() under Spec
ComputedFns ==
    { Fn(Ref(1), "read", Ref(2), 0, FALSE) }      \* a.value ? b.value : 0

EffectFns ==
    { Fn(Computed(1), "read", Ref(2), 0, TRUE),   \* c1.value ? b.value : 0
      Fn(Ref(1), "effect", Null, 0, FALSE),       \* a.value && effect(...)
      Fn(Ref(1), "throw", Null, 0, TRUE),         \* if (a.value) throw
      Fn(Ref(1), "write", Ref(2), 1, FALSE),      \* if (a.value) b.value = 1
      Fn(Ref(1), "remove", Effect(1), 0, FALSE) } \* if (a.value) e1._remove()

\* the bodies the host passes under SpecGuard: they construct nodes
GuardComputedFns ==
    { Fn(Ref(1), "ref", Null, 0, FALSE),          \* a.value && ref(0)
      Fn(Ref(1), "computed", Null, 0, FALSE) }    \* a.value && computed(...)

GuardEffectFns ==
    { Fn(Ref(1), "ref", Null, 0, FALSE),          \* a.value && ref(0)
      Fn(Ref(1), "computed", Null, 0, FALSE),     \* a.value && computed(...)
      Fn(Ref(1), "effect", Null, 0, FALSE) }      \* a.value && effect(...)

\* the bodies the host passes under SpecFlow: a chain, a conditional read,
\* a diamond, an effect that writes a leaf, an effect that detaches
FlowComputedFns ==
    { Fn(Ref(1), "none", Null, 0, FALSE),         \* a.value
      Fn(Ref(1), "read", Ref(2), 0, FALSE) }      \* a.value ? b.value : 0

FlowEffectFns ==
    { Fn(Computed(1), "none", Null, 0, FALSE),    \* c1.value
      Fn(Computed(1), "read", Ref(1), 0, FALSE),  \* c1.value ? a.value : 0
      Fn(Ref(1), "write", Ref(2), 1, FALSE),      \* if (a.value) b.value = 1
      Fn(Ref(1), "remove", Computed(1), 0, FALSE) } \* if (a.value) c1._remove()

\* the bodies the host passes under SpecLive
LiveComputedFns ==
    { Fn(Ref(1), "none", Null, 0, FALSE) }        \* a.value

LiveEffectFns ==
    { Fn(Computed(1), "none", Null, 0, FALSE),    \* c1.value
      Fn(Ref(1), "write", Ref(2), 1, FALSE),      \* if (a.value) b.value = 1
      Fn(Ref(2), "flip", Ref(2), 0, FALSE) }      \* b.value = (b.value + 1) % ..

\* the bodies the host passes under SpecCollect
CollectComputedFns ==
    { Fn(Ref(1), "none", Null, 0, FALSE) }        \* a.value

CollectEffectFns ==
    { Fn(Ref(1), "effect", Null, 0, FALSE),       \* a.value && effect(...)
      Fn(Ref(1), "throw", Null, 0, FALSE) }       \* if (a.value) throw

\* the nodes a body and the bodies it constructs refer to
Mentions(fn) ==
    {fn.src} \cup (IF fn.arg = Null THEN {} ELSE {fn.arg})
             \cup (IF fn.op = "computed" THEN {NestedComputedFn.src} ELSE {})
             \cup (IF fn.op = "effect" THEN {NestedEffectFn.src} ELSE {})

\* a closure can only refer to a node that has been constructed
Constructed(n) ==
    CASE Kind(n) = "ref" -> Idx(n) <= Len(refs)
      [] Kind(n) = "computed" ->
            Idx(n) <= Len(computeds) /\ computeds[Idx(n)].status = "live"
      [] Kind(n) = "effect" ->
            Idx(n) <= Len(effects) /\ effects[Idx(n)].status = "live"

\* every node the bounds allow
Nodes ==
    {Ref(i) : i \in 1..MaxRefs} \cup {Computed(i) : i \in 1..MaxComputeds}
        \cup {Effect(i) : i \in 1..MaxEffects}

\* updateStates is not running.  ran (a history field, not a local of
\* updateStates) counts, for the call of updateStates under way, the commits
\* of each leaf that changed it and the runs of the body of each derived
\* signal and effect (up to MaxCalls)
NotFlushing ==
    [pc |-> "idle", dirty |-> <<>>, i |-> 0, queue |-> <<>>,
     ran |-> [n \in Nodes |-> 0]]

Init ==
    /\ refs = <<>>
    /\ computeds = <<>>
    /\ effects = <<>>
    /\ currentCapture = Null
    /\ dirtyStates = <<>>
    /\ currentUpdate = FALSE
    /\ timers = 0
    /\ recursive = "false"
    /\ stack = <<>>
    /\ flush = NotFlushing
    /\ exc = "none"
    /\ currentRefs = NoList
    /\ currentComputes = NoList
    /\ currentEffects = NoList
    /\ collects = <<>>

\* the host has control: no body is running and updateStates is not running
Idle == stack = <<>> /\ flush.pc = "idle" /\ exc = "none"


\* --------------------------------------------------------------- helpers
\* linkRefs with the loop left out: no leaf gets the listener
linkRefsNone(rs, this, getters) == rs

\* for (const node of getters) node._listeners.add(this)
linkRefs(rs, this, getters) ==
    [i \in DOMAIN rs |->
        IF Ref(i) \in Range(getters)
        THEN [rs[i] EXCEPT !._listeners = SetAdd(@, this)] ELSE rs[i]]
linkComputeds(cs, this, getters) ==
    [i \in DOMAIN cs |->
        IF Computed(i) \in Range(getters)
        THEN [cs[i] EXCEPT !._listeners = SetAdd(@, this)] ELSE cs[i]]

\* unlinkRefs with the loop left out: the old links stay
unlinkRefsNone(rs, this, getters) == rs

\* for (const node of getters) node._listeners.delete(this)
unlinkRefs(rs, this, getters) ==
    [i \in DOMAIN rs |->
        IF Ref(i) \in Range(getters)
        THEN [rs[i] EXCEPT !._listeners = SetDelete(@, this)] ELSE rs[i]]
unlinkComputeds(cs, this, getters) ==
    [i \in DOMAIN cs |->
        IF Computed(i) \in Range(getters)
        THEN [cs[i] EXCEPT !._listeners = SetDelete(@, this)] ELSE cs[i]]

\* currentCapture?._getters.add(n), on the objects of one class
addGetter(objs, kind, n) ==
    IF Kind(currentCapture) = kind
    THEN [objs EXCEPT ![Idx(currentCapture)]._capture._getters = SetAdd(@, n)]
    ELSE objs
\* currentCapture?._setters.add(ref i)
addSetter(objs, kind, i) ==
    IF Kind(currentCapture) = kind
    THEN [objs EXCEPT ![Idx(currentCapture)]._capture._setters = SetAdd(@, i)]
    ELSE objs

\* the value returned by RefState.get value / ComputedState.get value
StateOf(n) ==
    IF Kind(n) = "ref" THEN refs[Idx(n)]._state ELSE computeds[Idx(n)]._state

ListenersOf(n) ==
    CASE Kind(n) = "ref" -> refs[Idx(n)]._listeners
      [] Kind(n) = "computed" -> computeds[Idx(n)]._listeners
      [] OTHER -> <<>>

FnOf(n) ==
    IF Kind(n) = "computed" THEN computeds[Idx(n)]._fn ELSE effects[Idx(n)]._fn

GettersOf(n) ==
    IF Kind(n) = "computed" THEN computeds[Idx(n)]._capture._getters
    ELSE effects[Idx(n)]._capture._getters

\* one call of runCapture in progress: the node whose body runs, whether
\* the constructor or _update called it, the position in the body, the
\* last value read, and runCapture's local previousCapture.  Three history
\* fields: reads, the sources this body has read, seen, the same with the
\* value each read returned, and recursive0, the value of recursive when
\* the constructor or _update was entered
Frame(node, ctx, prev) ==
    [node |-> node, ctx |-> ctx, pc |-> 0, acc |-> Undefined,
     previousCapture |-> prev, reads |-> {}, seen |-> {},
     recursive0 |-> recursive]

Top == stack[Len(stack)]

\* ------------------------------------------------------------- scheduler
\* flush.ran with one more commit or run of node n
Ran(n) == [flush.ran EXCEPT ![n] = IF @ < MaxCalls THEN @ + 1 ELSE @]

\* enqueueUpdate without the currentUpdate test: every call queues a callback
enqueueUpdateAlways(i) ==
    /\ dirtyStates' = SetAdd(dirtyStates, i)
    /\ currentUpdate' = TRUE
    /\ timers' = timers + 1

enqueueUpdate(i) ==
    /\ dirtyStates' = SetAdd(dirtyStates, i)
    /\ IF ~currentUpdate
       THEN currentUpdate' = TRUE /\ timers' = timers + 1
       ELSE UNCHANGED <<currentUpdate, timers>>

\* assertRecursive(name) throws
assertRecursive(name) ==
    /\ recursive # "false"
    /\ ~(name = "effect" /\ recursive = "effect")

\* ------------------------------------------------------------- RefState
\* written (not a field of the class) is the value of the last call of the
\* setter while a write to the leaf awaits its _update by a flush, and
\* NoWrite when none does
RefStateNew(init) ==
    [_state |-> init, _pending |-> init, _listeners |-> <<>>,
     written |-> NoWrite]

\* set value without the state !== this._state test
setValueAlways(i, v) ==
    /\ refs' = [refs EXCEPT ![i]._pending = v, ![i].written = v]
    /\ enqueueUpdate(i)

\* set value assigning _state at once
setValueSync(i, v) ==
    IF v # refs[i]._state
    THEN /\ refs' = [refs EXCEPT ![i]._state = v, ![i]._pending = v,
                                 ![i].written = v]
         /\ enqueueUpdate(i)
    ELSE /\ refs' = [refs EXCEPT ![i].written = IF @ = NoWrite THEN @ ELSE v]
         /\ UNCHANGED <<dirtyStates, currentUpdate, timers>>

\* set value without the call of enqueueUpdate
setValueNoEnqueue(i, v) ==
    /\ refs' = [refs EXCEPT ![i]._pending = v, ![i].written = v]
    /\ UNCHANGED <<dirtyStates, currentUpdate, timers>>

\* RefState.set value, apart from currentCapture?._setters.add(this)
setValue(i, v) ==
    IF v # refs[i]._state
    THEN /\ refs' = [refs EXCEPT ![i]._pending = v, ![i].written = v]
         /\ enqueueUpdate(i)
    ELSE /\ refs' = [refs EXCEPT ![i].written = IF @ = NoWrite THEN @ ELSE v]
         /\ UNCHANGED <<dirtyStates, currentUpdate, timers>>

\* RefState._update: the object after the call
refUpdate(r) ==
    IF r._state = r._pending THEN r
    ELSE [r EXCEPT !._state = r._pending]

\* ------------------------------------------------------------- runCapture
\* runCapture without the finally clause
runCaptureNoRestore(frame) == currentCapture

\* the finally clause: the value currentCapture is set to on exit
runCaptureFinally(frame) == frame.previousCapture

\* ---------------------------------------------------------------- collect
\* list?.push(state)
push(list, n) == IF list = NoList THEN list ELSE Append(list, n)

\* One call of collect in progress.  All its fields are history: prior, the
\* three lists when collect was entered, and refs, computes, effects, the
\* nodes whose construction by ref(), computed() and effect() completed
\* while the callback was running
CollectFrame ==
    [prior |-> <<currentRefs, currentComputes, currentEffects>>,
     refs |-> <<>>, computes |-> <<>>, effects |-> <<>>]

\* ref(): currentRefs?.push(state)
registerRef(n) ==
    /\ currentRefs' = push(currentRefs, n)
    /\ collects' = [j \in DOMAIN collects |->
                       [collects[j] EXCEPT !.refs = Append(@, n)]]
    /\ UNCHANGED <<currentComputes, currentEffects>>

\* computed(): currentComputes?.push(state)
registerComputed(n) ==
    /\ currentComputes' = push(currentComputes, n)
    /\ collects' = [j \in DOMAIN collects |->
                       [collects[j] EXCEPT !.computes = Append(@, n)]]
    /\ UNCHANGED <<currentRefs, currentEffects>>

\* effect(): currentEffects?.push(state)
registerEffect(n) ==
    /\ currentEffects' = push(currentEffects, n)
    /\ collects' = [j \in DOMAIN collects |->
                       [collects[j] EXCEPT !.effects = Append(@, n)]]
    /\ UNCHANGED <<currentRefs, currentComputes>>

\* ---------------------------------------------------------- ComputedState
\* the constructor up to the call of fn inside runCapture; stk is the call
\* stack of the caller
ComputedStateCtor(fn, stk) ==
    /\ Len(computeds) < MaxComputeds
    /\ computeds' = Append(computeds,
          [_fn |-> fn, _state |-> Undefined,
           _capture |-> Capture, _listeners |-> <<>>,
           status |-> "constructing", lastEval |-> "none",
           removed |-> FALSE])
    /\ recursive' = "computed"
    /\ currentCapture' = Computed(Len(computeds) + 1)
    /\ stack' = Append(stk, Frame(Computed(Len(computeds) + 1), "ctor",
                                  currentCapture))

\* ------------------------------------------------------------ EffectState
\* History fields: status ("constructing", "live", or "failed" when the
\* constructor threw) in both classes; in ComputedState lastEval, how the
\* last run of the body ended ("ctor", "changed", "unchanged", "threw"),
\* and removed, whether _remove has been called on the object; in
\* EffectState returned, whether the last run of the body returned, seen,
\* the sources the last run that returned read with the values it read,
\* and calls, the number of invocations of the callback _clear holds (up
\* to MaxCalls)
EffectStateCtor(fn, stk) ==
    /\ Len(effects) < MaxEffects
    /\ effects' = Append(effects,
          [_fn |-> fn, _capture |-> Capture, _clear |-> FALSE,
           _deleted |-> FALSE, status |-> "constructing",
           calls |-> 0, returned |-> FALSE, seen |-> {}])
    /\ recursive' = "effect"
    /\ currentCapture' = Effect(Len(effects) + 1)
    /\ stack' = Append(stk, Frame(Effect(Len(effects) + 1), "ctor",
                                  currentCapture))

\* _update and _remove without the call of _clear
callClearNever(e) == e

\* this._clear() when _clear is a function
callClear(e) ==
    IF e._clear
    THEN [e EXCEPT !.calls = IF e.calls < MaxCalls THEN e.calls + 1 ELSE e.calls]
    ELSE e

\* EffectState._remove on effects[k]
effectRemove(k) ==
    /\ effects' = [effects EXCEPT
                      ![k] = [callClear(effects[k]) EXCEPT !._deleted = TRUE]]
    /\ refs' = unlinkRefs(refs, Effect(k), effects[k]._capture._getters)
    /\ computeds' = unlinkComputeds(computeds, Effect(k),
                                    effects[k]._capture._getters)

\* ComputedState._remove with the loop left out
computedRemoveNone(k) ==
    /\ computeds' = [computeds EXCEPT ![k].removed = TRUE]
    /\ UNCHANGED <<refs, effects>>

\* ComputedState._remove on computeds[k]
computedRemove(k) ==
    /\ refs' = unlinkRefs(refs, Computed(k), computeds[k]._capture._getters)
    /\ computeds' = [unlinkComputeds(computeds, Computed(k),
                                     computeds[k]._capture._getters)
                        EXCEPT ![k].removed = TRUE]
    /\ UNCHANGED effects

remove(n) ==
    IF Kind(n) = "effect" THEN effectRemove(Idx(n)) ELSE computedRemove(Idx(n))

\* ------------------------------------------------ the host's calls (API)
\* ref(init)
HostRef(init) ==
    /\ Idle
    /\ IF assertRecursive("ref")
       THEN exc' = "TypeError" /\ UNCHANGED <<refs, collectVars>>
       ELSE /\ Len(refs) < MaxRefs
            /\ refs' = Append(refs, RefStateNew(init))
            /\ registerRef(Ref(Len(refs) + 1))
            /\ UNCHANGED exc
    /\ UNCHANGED <<computeds, effects, currentCapture, dirtyStates,
                   currentUpdate, timers, recursive, stack, flush>>

\* computed(fn)
HostComputed(fn) ==
    /\ Idle
    /\ \A n \in Mentions(fn) : Constructed(n)
    /\ IF assertRecursive("computed")
       THEN exc' = "TypeError"
            /\ UNCHANGED <<computeds, recursive, currentCapture, stack>>
       ELSE ComputedStateCtor(fn, <<>>) /\ UNCHANGED exc
    /\ UNCHANGED <<refs, effects, dirtyStates, currentUpdate, timers, flush>>
    /\ UNCHANGED collectVars

\* effect(fn)
HostEffect(fn) ==
    /\ Idle
    /\ \A n \in Mentions(fn) : Constructed(n)
    /\ IF assertRecursive("effect")
       THEN exc' = "TypeError"
            /\ UNCHANGED <<effects, recursive, currentCapture, stack>>
       ELSE EffectStateCtor(fn, <<>>) /\ UNCHANGED exc
    /\ UNCHANGED <<refs, computeds, dirtyStates, currentUpdate, timers, flush>>
    /\ UNCHANGED collectVars

\* r.value = v, outside any body
HostWrite(i, v) ==
    /\ Idle
    /\ i \in DOMAIN refs
    /\ setValue(i, v)
    /\ computeds' = addSetter(computeds, "computed", i)
    /\ effects' = addSetter(effects, "effect", i)
    /\ UNCHANGED <<currentCapture, recursive, stack, flush, exc>>
    /\ UNCHANGED collectVars

\* state._remove(), as VDOM.remove calls it
HostRemove(n) ==
    /\ Idle
    /\ Kind(n) \in {"computed", "effect"}
    /\ Constructed(n)
    /\ remove(n)
    /\ UNCHANGED <<currentCapture, dirtyStates, currentUpdate, timers,
                   recursive, stack, flush, exc>>
    /\ UNCHANGED collectVars

\* --------------------------------------------------------- updateStates
\* the timer fires: currentUpdate = false
FlushStart ==
    /\ Idle
    /\ collects = <<>>
    /\ timers > 0
    /\ timers' = timers - 1
    /\ currentUpdate' = FALSE
    /\ flush' = [flush EXCEPT !.pc = "loop"]
    /\ UNCHANGED <<refs, computeds, effects, currentCapture, dirtyStates,
                   recursive, stack, exc>>
    /\ UNCHANGED collectVars

\* while (dirtyStates.size > 0) { dirty = [...dirtyStates]; dirtyStates = new Set(); queue = []
RoundBegin ==
    /\ flush.pc = "loop"
    /\ dirtyStates # <<>>
    /\ flush' = [flush EXCEPT !.pc = "commit", !.dirty = dirtyStates,
                               !.i = 1, !.queue = <<>>]
    /\ dirtyStates' = <<>>
    /\ UNCHANGED <<refs, computeds, effects, currentCapture, currentUpdate,
                   timers, recursive, stack, exc>>
    /\ UNCHANGED collectVars

\* the while condition fails: updateStates returns
FlushEnd ==
    /\ flush.pc = "loop"
    /\ dirtyStates = <<>>
    /\ flush' = NotFlushing
    /\ UNCHANGED <<refs, computeds, effects, currentCapture, dirtyStates,
                   currentUpdate, timers, recursive, stack, exc>>
    /\ UNCHANGED collectVars

\* the commit loop left after its first iteration
CommitLeafFirst ==
    /\ flush.pc = "commit"
    /\ LET r == flush.dirty[flush.i]
           changed == refUpdate(refs[r]) # refs[r]
       IN  /\ refs' = [refs EXCEPT ![r] = [refUpdate(@) EXCEPT !.written = NoWrite]]
           /\ flush' = [flush EXCEPT
                 !.queue = IF changed THEN @ \o refs[r]._listeners ELSE @,
                 !.ran = IF changed THEN Ran(Ref(r)) ELSE @,
                 !.i = @ + 1,
                 !.pc = "drain"]
    /\ UNCHANGED <<computeds, effects, currentCapture, dirtyStates,
                   currentUpdate, timers, recursive, stack, exc>>
    /\ UNCHANGED collectVars

\* one iteration of: for (const refState of dirty) if (refState._update()) push listeners
CommitLeaf ==
    /\ flush.pc = "commit"
    /\ LET r == flush.dirty[flush.i]
           changed == refUpdate(refs[r]) # refs[r]
       IN  /\ refs' = [refs EXCEPT ![r] = [refUpdate(@) EXCEPT !.written = NoWrite]]
           /\ flush' = [flush EXCEPT
                 !.queue = IF changed THEN @ \o refs[r]._listeners ELSE @,
                 !.ran = IF changed THEN Ran(Ref(r)) ELSE @,
                 !.i = @ + 1,
                 !.pc = IF flush.i = Len(flush.dirty) THEN "drain" ELSE "commit"]
    /\ UNCHANGED <<computeds, effects, currentCapture, dirtyStates,
                   currentUpdate, timers, recursive, stack, exc>>
    /\ UNCHANGED collectVars

Draining == flush.pc = "drain" /\ stack = <<>> /\ exc = "none"

\* queue.pop() is a ComputedState: _update up to the call of fn
PopComputed ==
    /\ Draining
    /\ flush.queue # <<>>
    /\ Kind(Last(flush.queue)) = "computed"
    /\ LET this == Last(flush.queue)
           k == Idx(this)
           old == computeds[k]._capture._getters
       IN  /\ refs' = unlinkRefs(refs, this, old)
           /\ computeds' = [unlinkComputeds(computeds, this, old)
                               EXCEPT ![k]._capture = Capture]
           /\ currentCapture' = this
           /\ stack' = <<Frame(this, "update", currentCapture)>>
           /\ flush' = [flush EXCEPT !.queue = Front(@), !.ran = Ran(this)]
    /\ UNCHANGED <<effects, dirtyStates, currentUpdate, timers, recursive, exc>>
    /\ UNCHANGED collectVars

\* the part of EffectState._update before the call of fn, on effects[k]
effectUpdateEnter(k) ==
    LET this == Effect(k)
        old == effects[k]._capture._getters
    IN  /\ effects' = [effects EXCEPT
               ![k] = [callClear(effects[k]) EXCEPT !._capture = Capture]]
        /\ refs' = unlinkRefs(refs, this, old)
        /\ computeds' = unlinkComputeds(computeds, this, old)
        /\ currentCapture' = this
        /\ stack' = <<Frame(this, "update", currentCapture)>>

\* queue.pop() is an EffectState that is not deleted
PopEffect ==
    /\ Draining
    /\ flush.queue # <<>>
    /\ Kind(Last(flush.queue)) = "effect"
    /\ ~effects[Idx(Last(flush.queue))]._deleted
    /\ effectUpdateEnter(Idx(Last(flush.queue)))
    /\ flush' = [flush EXCEPT !.queue = Front(@),
                               !.ran = Ran(Last(flush.queue))]
    /\ UNCHANGED <<dirtyStates, currentUpdate, timers, recursive, exc>>
    /\ UNCHANGED collectVars

\* queue.pop() is a deleted EffectState: _update returns at once
PopDeleted ==
    /\ Draining
    /\ flush.queue # <<>>
    /\ Kind(Last(flush.queue)) = "effect"
    /\ effects[Idx(Last(flush.queue))]._deleted
    /\ flush' = [flush EXCEPT !.queue = Front(@)]
    /\ UNCHANGED <<refs, computeds, effects, currentCapture, dirtyStates,
                   currentUpdate, timers, recursive, stack, exc>>
    /\ UNCHANGED collectVars

\* while (queue.length > 0) fails: back to the outer loop
DrainEnd ==
    /\ Draining
    /\ flush.queue = <<>>
    /\ flush' = [flush EXCEPT !.pc = "loop"]
    /\ UNCHANGED <<refs, computeds, effects, currentCapture, dirtyStates,
                   currentUpdate, timers, recursive, stack, exc>>
    /\ UNCHANGED collectVars

\* ------------------------------------------------- the steps of a body
Running == stack # <<>> /\ exc = "none"
\* the caller's stack once the statement under way has completed
Advanced == [stack EXCEPT ![Len(stack)].pc = 2]
\* the body is at its conditional statement and the condition holds
Taken(op) ==
    /\ Running
    /\ Top.pc = 1
    /\ Top.acc # 0
    /\ FnOf(Top.node).op = op

\* const x = src.value
BodyRead ==
    /\ Running
    /\ Top.pc = 0
    /\ LET src == FnOf(Top.node).src
       IN  /\ computeds' = addGetter(computeds, "computed", src)
           /\ effects' = addGetter(effects, "effect", src)
           /\ stack' = [stack EXCEPT ![Len(stack)].pc = 1,
                                     ![Len(stack)].acc = StateOf(src),
                                     ![Len(stack)].reads = @ \cup {src},
                                     ![Len(stack)].seen =
                                         @ \cup {<<src, StateOf(src)>>}]
    /\ UNCHANGED <<refs, currentCapture, dirtyStates, currentUpdate, timers,
                   recursive, flush, exc>>
    /\ UNCHANGED collectVars

\* if (x) is false, or the body has no conditional statement
BodySkip ==
    /\ Running
    /\ Top.pc = 1
    /\ \/ Top.acc = 0 /\ FnOf(Top.node).op # "flip"
       \/ FnOf(Top.node).op = "none"
    /\ stack' = Advanced
    /\ UNCHANGED <<refs, computeds, effects, currentCapture, dirtyStates,
                   currentUpdate, timers, recursive, flush, exc>>
    /\ UNCHANGED collectVars

\* if (x) x = arg.value
BodyReadArg ==
    /\ Taken("read")
    /\ LET arg == FnOf(Top.node).arg
       IN  /\ computeds' = addGetter(computeds, "computed", arg)
           /\ effects' = addGetter(effects, "effect", arg)
           /\ stack' = [stack EXCEPT ![Len(stack)].pc = 2,
                                     ![Len(stack)].acc = StateOf(arg),
                                     ![Len(stack)].reads = @ \cup {arg},
                                     ![Len(stack)].seen =
                                         @ \cup {<<arg, StateOf(arg)>>}]
    /\ UNCHANGED <<refs, currentCapture, dirtyStates, currentUpdate, timers,
                   recursive, flush, exc>>
    /\ UNCHANGED collectVars

\* if (x) throw new Error()
BodyThrow ==
    /\ Taken("throw")
    /\ exc' = "Error"
    /\ UNCHANGED <<refs, computeds, effects, currentCapture, dirtyStates,
                   currentUpdate, timers, recursive, stack, flush>>
    /\ UNCHANGED collectVars

\* if (x) ref(0)
BodyRef ==
    /\ Taken("ref")
    /\ IF assertRecursive("ref")
       THEN exc' = "TypeError" /\ UNCHANGED <<refs, stack, collectVars>>
       ELSE /\ Len(refs) < MaxRefs
            /\ refs' = Append(refs, RefStateNew(0))
            /\ registerRef(Ref(Len(refs) + 1))
            /\ stack' = Advanced
            /\ UNCHANGED exc
    /\ UNCHANGED <<computeds, effects, currentCapture, dirtyStates,
                   currentUpdate, timers, recursive, flush>>

\* if (x) computed(NestedComputedFn)
BodyComputed ==
    /\ Taken("computed")
    /\ IF assertRecursive("computed")
       THEN exc' = "TypeError"
            /\ UNCHANGED <<computeds, recursive, currentCapture, stack>>
       ELSE ComputedStateCtor(NestedComputedFn, Advanced) /\ UNCHANGED exc
    /\ UNCHANGED <<refs, effects, dirtyStates, currentUpdate, timers, flush>>
    /\ UNCHANGED collectVars

\* if (x) effect(NestedEffectFn)
BodyEffect ==
    /\ Taken("effect")
    /\ IF assertRecursive("effect")
       THEN exc' = "TypeError"
            /\ UNCHANGED <<effects, recursive, currentCapture, stack>>
       ELSE EffectStateCtor(NestedEffectFn, Advanced) /\ UNCHANGED exc
    /\ UNCHANGED <<refs, computeds, dirtyStates, currentUpdate, timers, flush>>
    /\ UNCHANGED collectVars

\* if (x) arg.value = val
BodyWrite ==
    /\ Taken("write")
    /\ LET fn == FnOf(Top.node)
       IN  /\ setValue(Idx(fn.arg), fn.val)
           /\ computeds' = addSetter(computeds, "computed", Idx(fn.arg))
           /\ effects' = addSetter(effects, "effect", Idx(fn.arg))
    /\ stack' = Advanced
    /\ UNCHANGED <<currentCapture, recursive, flush, exc>>
    /\ UNCHANGED collectVars

\* arg.value = (x + 1) % (MaxVal + 1)
BodyFlip ==
    /\ Running
    /\ Top.pc = 1
    /\ FnOf(Top.node).op = "flip"
    /\ LET fn == FnOf(Top.node)
       IN  /\ setValue(Idx(fn.arg), (Top.acc + 1) % (MaxVal + 1))
           /\ computeds' = addSetter(computeds, "computed", Idx(fn.arg))
           /\ effects' = addSetter(effects, "effect", Idx(fn.arg))
    /\ stack' = Advanced
    /\ UNCHANGED <<currentCapture, recursive, flush, exc>>
    /\ UNCHANGED collectVars

\* if (x) arg._remove()
BodyRemove ==
    /\ Taken("remove")
    /\ remove(FnOf(Top.node).arg)
    /\ stack' = Advanced
    /\ UNCHANGED <<currentCapture, dirtyStates, currentUpdate, timers,
                   recursive, flush, exc>>
    /\ UNCHANGED collectVars

\* ---------------------------------------------- the body returns normally
Returning(kind, ctx) ==
    /\ Running
    /\ Top.pc = 2
    /\ Kind(Top.node) = kind
    /\ Top.ctx = ctx

\* ComputedState.constructor after fn has returned
ComputedCtorReturn ==
    /\ Returning("computed", "ctor")
    /\ LET this == Top.node
           k == Idx(this)
           state == Top.acc
           getters == computeds[k]._capture._getters
       IN  /\ currentCapture' = runCaptureFinally(Top)
           /\ recursive' = "false"
           /\ refs' = linkRefs(refs, this, getters)
           /\ computeds' = [linkComputeds(computeds, this, getters) EXCEPT
                               ![k]._state = state, ![k].status = "live",
                               ![k].lastEval = "ctor"]
           /\ registerComputed(this)
    /\ stack' = Front(stack)
    /\ UNCHANGED <<effects, dirtyStates, currentUpdate, timers, flush, exc>>

\* _update without the state === this._state test
computedChangedAlways(state, old) == TRUE

\* _update taking every result for equal to this._state
computedChangedNever(state, old) == FALSE

\* state === this._state fails
computedChanged(state, old) == state # old

\* ComputedState._update after fn has returned, and the push of its
\* listeners by updateStates when it returns true
ComputedUpdateReturn ==
    /\ Returning("computed", "update")
    /\ LET this == Top.node
           k == Idx(this)
           state == Top.acc
           getters == computeds[k]._capture._getters
           linked == [linkComputeds(computeds, this, getters) EXCEPT
                         ![k].lastEval = IF computedChanged(state, computeds[k]._state)
                                         THEN "changed" ELSE "unchanged"]
           changed == computedChanged(state, computeds[k]._state)
       IN  /\ currentCapture' = runCaptureFinally(Top)
           /\ refs' = linkRefs(refs, this, getters)
           /\ computeds' = IF changed
                           THEN [linked EXCEPT ![k]._state = state]
                           ELSE linked
           /\ flush' = [flush EXCEPT
                 !.queue = IF changed THEN @ \o linked[k]._listeners ELSE @]
    /\ stack' = Front(stack)
    /\ UNCHANGED <<effects, dirtyStates, currentUpdate, timers, recursive, exc>>
    /\ UNCHANGED collectVars

\* the part of EffectState.constructor and EffectState._update after fn has
\* returned: this._clear = (the value returned); link
effectAfterRun(k, clear) ==
    /\ effects' = [effects EXCEPT ![k]._clear = clear, ![k].calls = 0,
                                  ![k].status = "live",
                                  ![k].returned = TRUE,
                                  ![k].seen = Top.seen]
    /\ refs' = linkRefs(refs, Effect(k), effects[k]._capture._getters)
    /\ computeds' = linkComputeds(computeds, Effect(k),
                                  effects[k]._capture._getters)

EffectCtorReturn ==
    /\ Returning("effect", "ctor")
    /\ currentCapture' = runCaptureFinally(Top)
    /\ recursive' = "false"
    /\ effectAfterRun(Idx(Top.node), FnOf(Top.node).clean)
    /\ registerEffect(Top.node)
    /\ stack' = Front(stack)
    /\ UNCHANGED <<dirtyStates, currentUpdate, timers, flush, exc>>

EffectUpdateReturn ==
    /\ Returning("effect", "update")
    /\ currentCapture' = runCaptureFinally(Top)
    /\ effectAfterRun(Idx(Top.node), FnOf(Top.node).clean)
    /\ stack' = Front(stack)
    /\ UNCHANGED <<dirtyStates, currentUpdate, timers, recursive, flush, exc>>
    /\ UNCHANGED collectVars

\* ------------------------------------------------------------ exceptions
\* an object whose constructor threw is referenced by nothing
Failed(obj) == [obj EXCEPT !._capture = Capture, !.status = "failed"]

\* the exception leaves one runCapture and the constructor or _update that
\* called it: only the finally clause runs
Unwind ==
    /\ exc # "none"
    /\ stack # <<>>
    /\ currentCapture' = runCaptureFinally(Top)
    /\ stack' = Front(stack)
    /\ LET k == Idx(Top.node)
       IN  IF Kind(Top.node) = "computed"
           THEN /\ computeds' = IF Top.ctx = "ctor"
                                THEN [computeds EXCEPT ![k] = Failed(@)]
                                ELSE [computeds EXCEPT ![k].lastEval = "threw"]
                /\ UNCHANGED effects
           ELSE /\ effects' = IF Top.ctx = "ctor"
                              THEN [effects EXCEPT ![k] = Failed(@)]
                              ELSE [effects EXCEPT ![k].returned = FALSE]
                /\ UNCHANGED computeds
    /\ UNCHANGED <<refs, dirtyStates, currentUpdate, timers, recursive,
                   flush, exc>>
    /\ UNCHANGED collectVars

\* the exception reaches the host; updateStates, if it was running, is
\* abandoned with its locals
Uncaught ==
    /\ exc # "none"
    /\ stack = <<>>
    /\ collects = <<>>
    /\ exc' = "none"
    /\ flush' = NotFlushing
    /\ UNCHANGED <<refs, computeds, effects, currentCapture, dirtyStates,
                   currentUpdate, timers, recursive, stack>>
    /\ UNCHANGED collectVars

\* ---------------------------------------------------- collect(fn), by the host
\* collect is entered: the three lists are replaced by empty ones; the
\* calls the host makes until CollectReturn are those of the callback fn
CollectEnter ==
    /\ Idle
    /\ Len(collects) < MaxDepth
    /\ currentRefs' = <<>>
    /\ currentComputes' = <<>>
    /\ currentEffects' = <<>>
    /\ collects' = Append(collects, CollectFrame)
    /\ UNCHANGED <<refs, computeds, effects, currentCapture, dirtyStates,
                   currentUpdate, timers, recursive, stack, flush, exc>>

\* return [ret, currentRefs, currentComputes, currentEffects]: the lists
\* that collect returns, read when fn has returned
collectResult == <<currentRefs, currentComputes, currentEffects>>

\* the finally clause of collect
collectFinally ==
    /\ currentRefs' = NoList
    /\ currentComputes' = NoList
    /\ currentEffects' = NoList
    /\ collects' = Front(collects)

\* fn has returned: collect returns collectResult and its finally clause runs
CollectReturn ==
    /\ Idle
    /\ collects # <<>>
    /\ collectFinally
    /\ UNCHANGED <<refs, computeds, effects, currentCapture, dirtyStates,
                   currentUpdate, timers, recursive, stack, flush, exc>>

\* an exception thrown by a call of fn leaves collect: the finally clause runs
CollectUnwind ==
    /\ exc # "none"
    /\ stack = <<>>
    /\ collects # <<>>
    /\ collectFinally
    /\ UNCHANGED <<refs, computeds, effects, currentCapture, dirtyStates,
                   currentUpdate, timers, recursive, stack, flush, exc>>

\* ------------------------------------------------------------------ Next
\* the calls the host makes, with bodies drawn from CF and EF
HostCall(CF, EF) ==
    \/ \E init \in Val : HostRef(init)
    \/ \E fn \in CF : HostComputed(fn)
    \/ \E fn \in EF : HostEffect(fn)
    \/ \E i \in 1..MaxRefs, v \in Val : HostWrite(i, v)
    \/ \E k \in 1..MaxComputeds : HostRemove(Computed(k))
    \/ \E k \in 1..MaxEffects : HostRemove(Effect(k))

\* updateStates, apart from the bodies it runs
Scheduler ==
    \/ FlushStart
    \/ RoundBegin
    \/ FlushEnd
    \/ CommitLeaf
    \/ PopComputed
    \/ PopEffect
    \/ DrainEnd

\* the steps every body has, and the returns
Evaluation ==
    \/ BodyRead
    \/ BodySkip
    \/ ComputedCtorReturn
    \/ ComputedUpdateReturn
    \/ EffectCtorReturn
    \/ EffectUpdateReturn
    \/ Unwind
    \/ Uncaught

Next ==
    \/ HostCall(ComputedFns, EffectFns)
    \/ Scheduler
    \/ PopDeleted
    \/ Evaluation
    \/ BodyReadArg
    \/ BodyThrow
    \/ BodyEffect
    \/ BodyWrite
    \/ BodyRemove

Spec == Init /\ [][Next]_vars

\* the programs whose bodies construct nodes
NextGuard ==
    \/ HostCall(GuardComputedFns, GuardEffectFns)
    \/ Scheduler
    \/ Evaluation
    \/ BodyRef
    \/ BodyComputed
    \/ BodyEffect

SpecGuard == Init /\ [][NextGuard]_vars

\* the steps of a run in which no body throws
Quiet ==
    \/ BodyRead
    \/ BodySkip
    \/ ComputedCtorReturn
    \/ ComputedUpdateReturn
    \/ EffectCtorReturn
    \/ EffectUpdateReturn

\* the programs that propagate through chains and diamonds
NextFlow ==
    \/ HostCall(FlowComputedFns, FlowEffectFns)
    \/ Scheduler
    \/ Quiet
    \/ BodyReadArg
    \/ BodyWrite
    \/ BodyRemove

SpecFlow == Init /\ [][NextFlow]_vars

\* the programs with an effect that writes the leaf it reads.  The host
\* runs a started updateStates, and the bodies it calls, step after step
NextLive ==
    \/ HostCall(LiveComputedFns, LiveEffectFns)
    \/ Scheduler
    \/ Quiet
    \/ BodyWrite
    \/ BodyFlip

SpecLive == Init /\ [][NextLive]_vars /\ WF_vars(NextLive)

\* the programs that call collect
NextCollect ==
    \/ HostCall(CollectComputedFns, CollectEffectFns)
    \/ Scheduler
    \/ Evaluation
    \/ BodyThrow
    \/ BodyEffect
    \/ CollectEnter
    \/ CollectReturn
    \/ CollectUnwind

SpecCollect == Init /\ [][NextCollect]_vars

\* ---------------------------------------------------------------- claims
Sources ==
    {Ref(i) : i \in DOMAIN refs} \cup {Computed(i) : i \in DOMAIN computeds}

\* n is a listener of source S after the step
ListensAfter(n, S) ==
    IF Kind(S) = "ref" THEN n \in Range(refs'[Idx(S)]._listeners)
    ELSE n \in Range(computeds'[Idx(S)]._listeners)

\* after the step, n listens to exactly the sources in reads
ExactAfter(n, reads) ==
    \A S \in Sources : ListensAfter(n, S) <=> S \in reads

\* the step is a write of v to refs[i], by the host or by a body
Writes(i, v) ==
    \/ HostWrite(i, v)
    \/ BodyWrite /\ FnOf(Top.node).arg = Ref(i) /\ FnOf(Top.node).val = v

\* the step is a call of _remove on effects[k], by the host or by a body
Removes(k) ==
    \/ HostRemove(Effect(k))
    \/ BodyRemove /\ FnOf(Top.node).arg = Effect(k)

\* updateStates is about to call _update on effects[k]
PopsEffect(k) ==
    Draining /\ flush.queue # <<>> /\ Last(flush.queue) = Effect(k)

\* C1 (the claim as stated): when a flush commits a leaf, the committed value
\* is the value of the last write made to the leaf since its previous commit.
C1_LastWriteCommitted ==
    [][flush.pc = "commit" =>
          LET r == flush.dirty[flush.i]
          IN  refs'[r]._state = refs[r].written]_vars

\* C2: a write to a leaf of the value it has committed changes neither the
\* dirty set, nor the flushScheduled flag, nor the queued flush callbacks.
C2_EqualWriteNoop ==
    [][\A i \in DOMAIN refs : \A v \in Val :
          (v = refs[i]._state /\ Writes(i, v))
              => UNCHANGED <<dirtyStates, currentUpdate, timers>>]_vars

\* an equal write has been made to a leaf (here one that awaits a flush)
C2_Witness ==
    \E i \in DOMAIN refs :
        /\ refs[i].written = refs[i]._state
        /\ refs[i]._pending # refs[i]._state

\* C3: the committed value of a leaf changes only in the commit loop of a
\* flush; no write, construction, removal or body step changes it.
C3_CommitOnlyInFlush ==
    [][(\E i \in DOMAIN refs : refs'[i]._state # refs[i]._state)
          => flush.pc = "commit"]_vars

\* a write has been made and a read still returns the value committed before
C3_Witness ==
    \E i \in DOMAIN refs :
        /\ refs[i].written # NoWrite
        /\ refs[i].written # refs[i]._state
        /\ flush.pc = "idle"

\* C4: a flush callback is queued only when flushScheduled is false, which
\* is then set; the step that queues it does not advance updateStates;
\* updateStates starts from the host only, taking the callback and clearing
\* the flag; so at most one callback is queued at any time.
C4_Scheduler ==
    /\ [](timers = IF currentUpdate THEN 1 ELSE 0)
    /\ [][timers' > timers =>
             /\ ~currentUpdate /\ currentUpdate'
             /\ timers' = timers + 1
             /\ flush' = flush]_vars
    /\ [][(flush.pc = "idle" /\ flush'.pc # "idle") =>
             /\ stack = <<>>
             /\ timers' = timers - 1
             /\ ~currentUpdate']_vars

\* two leaves were written before the flush started: one callback is queued
C4_Witness ==
    /\ Len(dirtyStates) = 2
    /\ timers = 1
    /\ flush.pc = "idle"

C6_Memoization ==
    [][\A k \in DOMAIN computeds :
          (/\ Returning("computed", "update")
           /\ Top.node = Computed(k)
           /\ Top.acc = computeds[k]._state
           /\ stack' = Front(stack))
          => /\ computeds'[k]._state = computeds[k]._state
             /\ flush'.queue = flush.queue
             /\ ExactAfter(Computed(k), Top.reads)]_vars

\* a derived signal that has a listener was recomputed to an equal value
\* and now reads the second leaf as well
C6_Witness ==
    \E k \in DOMAIN computeds :
        /\ computeds[k].lastEval = "unchanged"
        /\ computeds[k]._listeners # <<>>
        /\ Len(refs) = 2
        /\ Computed(k) \in Range(refs[2]._listeners)

\* C7: a recompute of a non-deleted effect whose previous run returned a
\* cleanup has invoked that cleanup exactly once when the body starts; the
\* removal of such an effect invokes that cleanup exactly once, and every
\* removal sets deleted; a recompute attempt on a deleted effect runs no
\* body, no cleanup and adds no edge.
C7_CleanupOrdering ==
    [][\A k \in DOMAIN effects :
          /\ (/\ PopsEffect(k)
              /\ ~effects[k]._deleted
              /\ effects[k]._clear
              /\ effects[k].returned
              /\ flush' # flush)
               => /\ effects[k].calls = 0
                  /\ effects'[k].calls = 1
                  /\ stack' = <<Frame(Effect(k), "update", Null)>>
          /\ Removes(k) => effects'[k]._deleted
          /\ (/\ Removes(k)
              /\ ~effects[k]._deleted
              /\ effects[k]._clear
              /\ effects[k].returned)
               => /\ effects[k].calls = 0
                  /\ effects'[k].calls = 1
          /\ (PopsEffect(k) /\ effects[k]._deleted)
               => UNCHANGED <<refs, computeds, effects, stack>>]_vars

\* an effect whose cleanup was invoked once by its removal is about to be
\* handed to _update by the flush that was under way
C7_Witness ==
    \E k \in DOMAIN effects :
        /\ PopsEffect(k)
        /\ effects[k]._deleted
        /\ effects[k]._clear
        /\ effects[k].calls = 1

\* C8 (the claim as stated): constructing a leaf or a derived signal inside
\* a body fails with the reentrancy error, at construction and during a
\* recompute; constructing an effect inside an effect body succeeds.
C8_RecursionGuard ==
    [][/\ (Taken("ref") \/ Taken("computed")) => exc' = "TypeError"
       /\ (Taken("effect") /\ Kind(Top.node) = "effect") => exc' = "none"]_vars

\* C9 (the claim as stated): when an evaluation ends, by return or by throw,
\* recursive has the value it had when the evaluation was entered.
C9_ModeRestored ==
    [][(stack # <<>> /\ stack' = Front(stack))
          => recursive' = Top.recursive0]_vars

\* C10: outside any evaluation currentCapture is empty; during a body it is
\* the Capture of the innermost node being evaluated, whose previousCapture
\* is that of the enclosing evaluation; and each Capture on the call stack
\* holds exactly the reads of its own body.
C10_CaptureNesting ==
    /\ stack = <<>> => currentCapture = Null
    /\ stack # <<>> => currentCapture = Top.node
    /\ \A j \in DOMAIN stack :
          /\ Range(GettersOf(stack[j].node)) = stack[j].reads
          /\ stack[j].previousCapture =
                IF j = 1 THEN Null ELSE stack[j - 1].node

\* an effect constructed inside an effect body has read the second leaf
\* while the enclosing body has read the first only
C10_Witness ==
    /\ Len(stack) = 2
    /\ Top.reads = {Ref(2)}
    /\ stack[1].reads = {Ref(1)}

\* C11 (the claim as stated): the three lists a call of collect returns hold
\* exactly the leaf signals, derived signals and effects whose construction
\* through ref(), computed() and effect() completed while its callback was
\* running, in that order.
C11_CollectLists ==
    [][(Idle /\ collects # <<>> /\ collects' = Front(collects))
          => collectResult = <<Last(collects).refs, Last(collects).computes,
                               Last(collects).effects>>]_vars

\* C12 (the claim as stated): when a call of collect exits, by return or by
\* exception, the three lists are those that were current when it was
\* entered.
C12_TargetRestored ==
    [][(collects # <<>> /\ collects' = Front(collects))
          => <<currentRefs', currentComputes', currentEffects'>>
                = Last(collects).prior]_vars

\* the step is a call of _remove on computeds[k], by the host or by a body
Detaches(k) ==
    \/ HostRemove(Computed(k))
    \/ BodyRemove /\ FnOf(Top.node).arg = Computed(k)

\* n is a listener of source S before the step
Listens(n, S) == n \in Range(ListenersOf(S))

\* C14: a call of _remove on a derived signal removes it from the listeners
\* of every source its most recent evaluation read; every other node stays
\* or stays out of every listeners set, and no committed or pending value,
\* no effect, and nothing of the scheduler changes.
C14_DetachFrame ==
    [][\A k \in DOMAIN computeds :
          Detaches(k) =>
             /\ \A S \in Range(computeds[k]._capture._getters) :
                   ~ListensAfter(Computed(k), S)
             /\ \A S \in Sources :
                   \A n \in Range(ListenersOf(S)) \cup
                            {Effect(j) : j \in DOMAIN effects} :
                      n # Computed(k) => (ListensAfter(n, S) <=> Listens(n, S))
             /\ \A i \in DOMAIN refs :
                   /\ refs'[i]._state = refs[i]._state
                   /\ refs'[i]._pending = refs[i]._pending
             /\ \A j \in DOMAIN computeds :
                   computeds'[j]._state = computeds[j]._state
             /\ UNCHANGED <<effects, dirtyStates, currentUpdate, timers,
                            flush>>]_vars

\* a derived signal that read both leaves and had a listener of its own has
\* been removed: no leaf lists it, and its listener is still listed
C14_Witness ==
    \E k \in DOMAIN computeds :
        /\ computeds[k].removed
        /\ Len(computeds[k]._capture._getters) = 2
        /\ computeds[k]._listeners # <<>>
        /\ \A S \in Sources : ~Listens(Computed(k), S)

\* C15: a recompute starts only when the commit loop of the round has gone
\* through the whole snapshot of the dirty set; and while the work list of
\* a round is drained, a leaf whose pending value is not committed is in
\* the dirty set, which was emptied when the round began: it was written
\* during the round, not before it.
C15_CommitBeforeRecompute ==
    /\ [][(flush.pc # "idle" /\ stack = <<>> /\ stack' # <<>>)
             => /\ flush.pc = "drain"
                /\ flush.i = Len(flush.dirty) + 1]_vars
    /\ [](flush.pc = "drain" =>
             \A i \in DOMAIN refs :
                refs[i]._pending # refs[i]._state => i \in Range(dirtyStates))

\* a body is recomputed in a round whose snapshot held two leaves
C15_Witness ==
    /\ flush.pc = "drain"
    /\ Len(flush.dirty) = 2
    /\ stack # <<>>
    /\ Kind(Top.node) = "effect"
    /\ Top.pc = 1

\* C18: whenever updateStates is not running (whether or not a body has
\* thrown before), every leaf whose pending value differs from its
\* committed value is in the dirty set, and when the dirty set is not empty
\* currentUpdate is true and one flush callback is queued.
C18_NoStrandedWrite ==
    flush.pc = "idle" =>
        /\ \A i \in DOMAIN refs :
              refs[i]._pending # refs[i]._state => i \in Range(dirtyStates)
        /\ dirtyStates # <<>> => (currentUpdate /\ timers = 1)

\* the body of an effect that is being constructed has written a leaf: no
\* flush is running and the write awaits its commit
C18_Witness ==
    /\ flush.pc = "idle"
    /\ stack # <<>>
    /\ Top.pc = 2
    /\ FnOf(Top.node).op = "write"
    /\ refs[Idx(FnOf(Top.node).arg)]._pending # refs[Idx(FnOf(Top.node).arg)]._state

\* C19 (the claim as stated): the cleanup callback returned by one run of an
\* effect is invoked at most once.
C19_CleanupAtMostOnce ==
    \A k \in DOMAIN effects : effects[k].calls <= 1

\* leaf i -> derived signal k, whose body reads leaf i only -> effect j,
\* whose body reads derived signal k only; all edges in place
Chain(i, k, j) ==
    /\ computeds[k].status = "live"
    /\ computeds[k]._fn.src = Ref(i)
    /\ computeds[k]._fn.op = "none"
    /\ effects[j].status = "live"
    /\ ~effects[j]._deleted
    /\ effects[j]._fn.src = Computed(k)
    /\ effects[j]._fn.op = "none"
    /\ Listens(Computed(k), Ref(i))
    /\ Listens(Effect(j), Computed(k))

\* C13: when updateStates returns having committed one change of the leaf
\* of a chain, the derived signal holds its function of the new value of
\* the leaf (here the value itself), and the body of the effect has run
\* once in this call of updateStates, reading that new value.
C13_ChainOnce ==
    [][\A i \in DOMAIN refs : \A k \in DOMAIN computeds :
          \A j \in DOMAIN effects :
             (/\ Chain(i, k, j)
              /\ flush.pc = "loop"
              /\ flush'.pc = "idle"
              /\ flush.ran[Ref(i)] = 1)
               => /\ computeds[k]._state = refs[i]._state
                  /\ flush.ran[Effect(j)] = 1
                  /\ effects[j].seen = {<<Computed(k), refs[i]._state>>}]_vars

\* updateStates is about to return after one change of the leaf of a chain
\* whose effect it has run
C13_Witness ==
    \E i \in DOMAIN refs : \E k \in DOMAIN computeds : \E j \in DOMAIN effects :
        /\ Chain(i, k, j)
        /\ flush.pc = "loop"
        /\ dirtyStates = <<>>
        /\ flush.ran[Ref(i)] = 1
        /\ flush.ran[Effect(j)] = 1
        /\ computeds[k].lastEval = "changed"

\* C16 (the claim as stated): every call of updateStates that starts
\* returns, and when it returns the dirty set and the work list are empty.
C16_FlushReturns ==
    /\ (flush.pc # "idle") ~> (flush.pc = "idle")
    /\ [][(flush.pc # "idle" /\ flush'.pc = "idle")
             => (dirtyStates' = <<>> /\ flush.queue = <<>>)]_vars

\* the value a body returns, and the reads it makes with the values they
\* return, when it is run on the values now committed
ValueOf(fn) ==
    LET x == StateOf(fn.src)
    IN  IF x # 0 /\ fn.op = "read" THEN StateOf(fn.arg) ELSE x

SeenOf(fn) ==
    {<<fn.src, StateOf(fn.src)>>} \cup
        (IF StateOf(fn.src) # 0 /\ fn.op = "read"
         THEN {<<fn.arg, StateOf(fn.arg)>>} ELSE {})

\* C17: in the runs in which no body throws, whenever the host has control
\* (updateStates has returned or has not run yet), every derived signal on
\* which _remove was not called holds the value of its body on the
\* committed values of its sources, and the last run of every effect that
\* is not deleted read exactly the values now committed.
C17_QuiescentConsistency ==
    Idle =>
        /\ \A k \in DOMAIN computeds :
              (computeds[k].status = "live" /\ ~computeds[k].removed)
                 => computeds[k]._state = ValueOf(computeds[k]._fn)
        /\ \A j \in DOMAIN effects :
              (effects[j].status = "live" /\ ~effects[j]._deleted)
                 => effects[j].seen = SeenOf(effects[j]._fn)

\* updateStates has returned after recomputing a derived signal to a new
\* value; an effect that reads the derived signal and then the leaf the
\* derived signal reads (a diamond) has read both
C17_Witness ==
    /\ Idle
    /\ \E k \in DOMAIN computeds : \E j \in DOMAIN effects :
          /\ computeds[k].lastEval = "changed"
          /\ ~computeds[k].removed
          /\ ~effects[j]._deleted
          /\ effects[j]._fn.op = "read"
          /\ Cardinality(effects[j].seen) = 2

\* C20 (the claim as stated): a derived signal on which _remove has been
\* called is in no listeners set and its body is not run again.
C20_DetachedStaysDetached ==
    \A k \in DOMAIN computeds :
        computeds[k].removed =>
            /\ \A S \in Sources : ~Listens(Computed(k), S)
            /\ \A f \in DOMAIN stack : stack[f].node # Computed(k)

====
